---- MODULE Spec2Model ----
(***************************************************************************)
(* The two accessibility audit scripts of the repository:                  *)
(*   scripts/audit-mobile-accessibility.py  (React Native props)           *)
(*   scripts/audit-web-aria.py              (web ARIA attributes)          *)
(*                                                                         *)
(* A file's text is a sequence of TOKENS.  A token is an atomic chunk of   *)
(* characters (a tag opener such as "<Image", one attribute such as        *)
(* "accessibilityLabel='x'", the character ">", a newline, a word of       *)
(* text); chunks are separated by blanks where the source language needs   *)
(* them.  Every regular expression of the scripts is modelled by what it   *)
(* does on such a text: which tokens it can start at, how far its          *)
(* [^>]*? / .*? parts run, and which tokens its search finds.              *)
(*                                                                         *)
(* The input files are well-formed markup: a file is a sequence of         *)
(* elements, one per line, and the text the scripts read is the rendering  *)
(* of that sequence (Render).  The structure is what a claim's "element",  *)
(* "opening tag" and "attribute" refer to; the scripts see only the text.  *)
(* Violation.code_snippet (a bounded excerpt of the match) is not          *)
(* modelled: nothing reads it.                                             *)
(***************************************************************************)
EXTENDS Integers, Sequences, FiniteSets, TLC

\* Bounds of the model.
MaxFiles == 2
MaxElems == 2

GT == ">"
NL == "\n"

(***************************************************************************)
(* Helpers on sequences.                                                   *)
(***************************************************************************)
RECURSIVE Concat(_)
Concat(ss) == IF ss = <<>> THEN <<>> ELSE Head(ss) \o Concat(Tail(ss))

RECURSIVE SelectSeqBy(_, _)
\* the subsequence of s at the positions in keep (order kept)
SelectSeqBy(s, keep) ==
    IF s = <<>> THEN <<>>
    ELSE LET n == Len(s)
             front == SelectSeqBy(SubSeq(s, 1, n - 1), keep)
         IN  IF n \in keep THEN Append(front, s[n]) ELSE front

\* every sequence over S without a repeated member
SeqsNoRep(S) ==
    UNION { { f \in [1..n -> S] : \A a, b \in 1..n : a # b => f[a] # f[b] }
            : n \in 0..Cardinality(S) }

\* every sequence over S of length at most n
SeqsUpTo(S, n) == UNION { [1..k -> S] : k \in 0..n }

(***************************************************************************)
(* re.IGNORECASE on the tag openers of the alphabet.                       *)
(***************************************************************************)
Fold(t) ==
    CASE t = "<TouchableOpacity" -> "<touchableopacity"
      [] t = "<Pressable"        -> "<pressable"
      [] t = "<Image"            -> "<image"
      [] t = "<TextInput"        -> "<textinput"
      [] t = "<Button"           -> "<button"
      [] t = "<View"             -> "<view"
      [] t = "<Text"             -> "<text"
      [] t = "<Link"             -> "<link"
      [] t = "<Input"            -> "<input"
      [] t = "<IconButton"       -> "<iconbutton"
      [] t = "<Dialog"           -> "<dialog"
      [] t = "<DialogContent"    -> "<dialogcontent"
      [] t = "<Modal"            -> "<modal"
      [] t = "</Link"            -> "</link"
      [] t = "<DialogPrimitive.Content" -> "<dialogprimitive.content"
      [] OTHER                   -> t

\* match.group(1): the tag name as written
TagName(t) ==
    CASE t = "<TouchableOpacity" -> "TouchableOpacity"
      [] t = "<Pressable"        -> "Pressable"
      [] t = "<pressable"        -> "pressable"
      [] t = "<input"            -> "input"
      [] t = "<Input"            -> "Input"
      [] t = "<textarea"         -> "textarea"
      [] t = "<select"           -> "select"
      [] t = "<Dialog"           -> "Dialog"
      [] t = "<DialogContent"    -> "DialogContent"
      [] t = "<Modal"            -> "Modal"
      [] t = "<dialog"           -> "dialog"
      [] OTHER                   -> t

(***************************************************************************)
(* The element locator: re.finditer(r'<(NAMES)([^>]*?)>', content, ...).   *)
(***************************************************************************)
\* the first ">" at or after position from, 0 when there is none: where
\* [^>]*? followed by ">" ends
NextGt(content, from) ==
    LET hits == { k \in from..Len(content) : content[k] = GT }
    IN  IF hits = {} THEN 0 ELSE CHOOSE k \in hits : \A j \in hits : k <= j

\* match.group(2): the tokens between the tag name and that ">"
Span(content, m) == SubSeq(content, m.start + 1, m.gt - 1)

\* content[:match.start()].count('\n') + 1
LineNum(content, start) ==
    Cardinality({ k \in 1..(start - 1) : content[k] = NL }) + 1

RECURSIVE FindTags(_, _, _)
\* the matches, leftmost first and non-overlapping, of a pattern whose name
\* part matches the tokens in openers (after case folding)
FindTags(content, openers, from) ==
    IF from > Len(content) THEN <<>>
    ELSE IF Fold(content[from]) \in openers /\ NextGt(content, from + 1) # 0
         THEN LET q == NextGt(content, from + 1)
              IN  <<[start |-> from, gt |-> q]>> \o FindTags(content, openers, q + 1)
         ELSE FindTags(content, openers, from + 1)

\* re.search(pattern, attributes, re.IGNORECASE) for a pattern that the
\* tokens in hits contain
Search(hits, attributes) == \E k \in 1..Len(attributes) : attributes[k] \in hits

(***************************************************************************)
(* Mobile: the attribute patterns of audit_file.                           *)
(***************************************************************************)
\* r'accessibilityRole\s*='
RoleAttr == { "accessibilityRole='button'", "accessibilityRole='none'" }
\* r'accessibilityLabel\s*='
LabelAttr == { "accessibilityLabel='x'" }
\* r'accessibilityRole\s*=\s*["\']none["\']' or r'accessibilityIgnoresInvertColors'
DecorativeAttr == { "accessibilityRole='none'", "accessibilityIgnoresInvertColors" }
\* r'placeholder\s*='
PlaceholderAttr == { "placeholder='x'" }
\* r'title\s*='
TitleAttr == { "title='x'" }
\* 'onPress'
OnPressText == { "onPress={go}", "onPress={()=" }

Violation(file, line, element, issue, severity, recommendation) ==
    [file |-> file, line |-> line, element |-> element, issue |-> issue,
     severity |-> severity, recommendation |-> recommendation]

TouchableOpeners ==
    { "<touchableopacity", "<touchablehighlight", "<touchablewithoutfeedback", "<pressable" }

\* Pattern 1, one match
TouchableRule(path, content, m) ==
    LET attributes == Span(content, m)
        line_num == LineNum(content, m.start)
        element_type == TagName(content[m.start])
        has_role == Search(RoleAttr, attributes)
        has_label == Search(LabelAttr, attributes)
    IN  IF ~has_role /\ ~has_label
        THEN <<Violation(path, line_num, element_type,
                 "Touchable component missing accessibilityRole and accessibilityLabel",
                 "error", "Add accessibilityRole and accessibilityLabel props")>>
        ELSE IF ~has_label
        THEN <<Violation(path, line_num, element_type,
                 "Touchable component missing accessibilityLabel",
                 "error", "Add accessibilityLabel prop with descriptive text")>>
        ELSE <<>>

\* Pattern 2, one match
ImageRule(path, content, m) ==
    LET attributes == Span(content, m)
        line_num == LineNum(content, m.start)
        is_decorative == Search(DecorativeAttr, attributes)
        has_label == Search(LabelAttr, attributes)
    IN  IF ~is_decorative /\ ~has_label
        THEN <<Violation(path, line_num, "Image", "Image missing accessibilityLabel", "error",
                 "Add accessibilityLabel prop or mark as decorative with accessibilityRole=\"none\"")>>
        ELSE <<>>

\* Pattern 3, one match
TextInputRule(path, content, m) ==
    LET attributes == Span(content, m)
        line_num == LineNum(content, m.start)
        has_label == Search(LabelAttr, attributes)
        has_placeholder == Search(PlaceholderAttr, attributes)
    IN  IF ~has_label /\ ~has_placeholder
        THEN <<Violation(path, line_num, "TextInput",
                 "TextInput missing accessibilityLabel and placeholder", "error",
                 "Add accessibilityLabel prop or placeholder")>>
        ELSE <<>>

\* Pattern 4, one match
ButtonRule(path, content, m) ==
    LET attributes == Span(content, m)
        line_num == LineNum(content, m.start)
        has_label == Search(LabelAttr, attributes)
        has_title == Search(TitleAttr, attributes)
    IN  IF ~has_label /\ ~has_title
        THEN <<Violation(path, line_num, "Button", "Button missing accessibilityLabel and title",
                 "error", "Add accessibilityLabel prop or title prop")>>
        ELSE <<>>

\* Pattern 5, one match
ViewRule(path, content, m) ==
    LET attributes == Span(content, m)
        line_num == LineNum(content, m.start)
        has_role == Search(RoleAttr, attributes)
        has_label == Search(LabelAttr, attributes)
    IN  IF ~has_role
        THEN <<Violation(path, line_num, "View", "View with onPress missing accessibilityRole",
                 "error", "Add accessibilityRole=\"button\" and accessibilityLabel")>>
        ELSE IF ~has_label
        THEN <<Violation(path, line_num, "View", "View with onPress missing accessibilityLabel",
                 "error", "Add accessibilityLabel prop")>>
        ELSE <<>>

RECURSIVE FindViewPress(_, _)
\* re.finditer(r'<View([^>]*onPress[^>]*?)>', content, re.IGNORECASE): neither
\* [^>]* can pass a ">", so the group is the text up to the first ">" and it
\* must hold onPress; a "<View" without it is passed over
FindViewPress(content, from) ==
    IF from > Len(content) THEN <<>>
    ELSE IF /\ Fold(content[from]) = "<view"
            /\ NextGt(content, from + 1) # 0
            /\ Search(OnPressText, SubSeq(content, from + 1, NextGt(content, from + 1) - 1))
         THEN LET q == NextGt(content, from + 1)
              IN  <<[start |-> from, gt |-> q]>> \o FindViewPress(content, q + 1)
         ELSE FindViewPress(content, from + 1)

\* the passes with the Image pass run before the touchable pass
MobilePassesImageFirst == <<"image", "touchable", "textinput", "button", "view">>

\* the order of the five passes over the file
MobilePasses == <<"touchable", "image", "textinput", "button", "view">>

MobileMatches(content, pass) ==
    CASE pass = "touchable" -> FindTags(content, TouchableOpeners, 1)
      [] pass = "image"     -> FindTags(content, {"<image"}, 1)
      [] pass = "textinput" -> FindTags(content, {"<textinput"}, 1)
      [] pass = "button"    -> FindTags(content, {"<button"}, 1)
      [] pass = "view"      -> FindViewPress(content, 1)

MobileRule(path, content, pass, m) ==
    CASE pass = "touchable" -> TouchableRule(path, content, m)
      [] pass = "image"     -> ImageRule(path, content, m)
      [] pass = "textinput" -> TextInputRule(path, content, m)
      [] pass = "button"    -> ButtonRule(path, content, m)
      [] pass = "view"      -> ViewRule(path, content, m)

\* one for-loop of audit_file: the violations of one pattern, in match order
MobilePass(path, content, pass) ==
    LET ms == MobileMatches(content, pass)
    IN  Concat([k \in 1..Len(ms) |-> MobileRule(path, content, pass, ms[k])])

(***************************************************************************)
(* The files on disk.  A file is [path, readable, elems]; an element is    *)
(* [open, attrs, kids, close]: its tag opener, its attributes in order     *)
(* (each the tokens it is written with), and for an element with a closing *)
(* tag its children (words of text and child tags) and the closing tag's   *)
(* opener (close = "" otherwise).                                          *)
(***************************************************************************)
Elem(open, attrs) == [open |-> open, attrs |-> attrs, kids |-> <<>>, close |-> ""]

ElemWithKids(open, attrs, kids, close) ==
    [open |-> open, attrs |-> attrs, kids |-> kids, close |-> close]

\* a child of an element: a word of text, or a child tag with its tokens
TextChild(word) == [text |-> TRUE, tokens |-> <<word>>]
TagChild(tokens) == [text |-> FALSE, tokens |-> tokens]

\* the text of one element: <open attrs> and, with a closing tag, kids </close>
RenderElem(e) ==
    <<e.open>> \o Concat(e.attrs) \o <<GT>>
        \o (IF e.close = "" THEN <<>>
            ELSE Concat([c \in 1..Len(e.kids) |-> e.kids[c].tokens]) \o <<e.close, GT>>)

\* the text of a file: its elements, one per line
Render(elems) == Concat([k \in 1..Len(elems) |-> RenderElem(elems[k]) \o <<NL>>])

\* the line an element is written on
LineOfElem(elems, k) == k

\* os.path.join(root, filename) of the k-th enumerated file
PathAt(k) == [dir |-> k, base |-> "Card"]

\* what a file can hold: at most MaxElems elements of universe
ReadableBodies(universe) == [readable : {TRUE}, elems : SeqsUpTo(universe, MaxElems)]

\* a file that cannot be read or decoded
UnreadableBody == [readable |-> FALSE, elems |-> <<>>]

\* the k-th enumerated file
FileAt(k, body) == [path |-> PathAt(k), readable |-> body.readable, elems |-> body.elems]

\* with open(file_path, 'r', encoding='utf-8') as f: content = f.read()
ReadFile(file) ==
    IF file.readable THEN [raised |-> FALSE, content |-> Render(file.elems)]
    ELSE [raised |-> TRUE, content |-> <<>>]

(***************************************************************************)
(* Mobile: audit_file and main.                                            *)
(***************************************************************************)
VARIABLES files, idx, all_violations, by_component, pc, results, report

vars == <<files, idx, all_violations, by_component, pc, results, report>>

\* audit_file without the try/except around the read
MobileAuditFileUncaught(file) ==
    LET read == ReadFile(file)
    IN  IF read.raised THEN [raised |-> TRUE, violations |-> <<>>]
        ELSE [raised |-> FALSE,
              violations |-> Concat([p \in 1..Len(MobilePasses) |->
                                 MobilePass(file.path, read.content, MobilePasses[p])])]

\* audit_file(file_path, root_dir): [raised, violations]
MobileAuditFile(file) ==
    LET read == ReadFile(file)
    IN  IF read.raised THEN [raised |-> FALSE, violations |-> <<>>]
        ELSE [raised |-> FALSE,
              violations |-> Concat([p \in 1..Len(MobilePasses) |->
                                 MobilePass(file.path, read.content, MobilePasses[p])])]

\* [v for v in all_violations if v.severity == severity]
BySeverity(vs, severity) == SelectSeq(vs, LAMBDA v : v.severity = severity)

\* a / b: a rational, or ZeroDivisionError
Divide(a, b) ==
    IF b = 0 THEN [raised |-> TRUE, num |-> 0, den |-> 1]
    ELSE [raised |-> FALSE, num |-> a, den |-> b]

\* the rate without the guard total_components > 0
ComplianceRateUnguarded(total_components, error_count) ==
    LET q == Divide(total_components - error_count, total_components)
    IN  [q EXCEPT !.num = q.num * 100]

\* generate_report: ((total_components - error_count) / total_components * 100)
\* if total_components > 0 else 0
ComplianceRate(total_components, error_count) ==
    IF total_components > 0
    THEN LET q == Divide(total_components - error_count, total_components)
         IN  [q EXCEPT !.num = q.num * 100]
    ELSE [raised |-> FALSE, num |-> 0, den |-> 1]

\* len(files)
TotalComponents(fs) == Len(fs)

NoResults == [total_components |-> 0, violations |-> <<>>, warnings |-> <<>>]
NoReport == [written |-> FALSE, total_components |-> 0, error_count |-> 0,
             warning_count |-> 0, compliance_rate |-> [num |-> 0, den |-> 1]]

\* the summary of generate_report(results)
GenerateReport(res) ==
    LET error_count == Len(res.violations)
        warning_count == Len(res.warnings)
        rate == ComplianceRate(res.total_components, error_count)
    IN  [raised |-> rate.raised,
         report |-> [written |-> TRUE, total_components |-> res.total_components,
                     error_count |-> error_count, warning_count |-> warning_count,
                     compliance_rate |-> [num |-> rate.num, den |-> rate.den]]]

\* main before the loop: find_component_files has found n files (n in counts)
InitWith(bodies, counts) ==
    /\ \E n \in counts : \E b \in [1..n -> bodies] : files = [k \in 1..n |-> FileAt(k, b[k])]
    /\ idx = 1
    /\ all_violations = <<>>
    /\ by_component = <<>>
    /\ pc = "audit"
    /\ results = NoResults
    /\ report = NoReport

\* main, one turn of: for file_path in files
MobileAudit ==
    /\ pc = "audit"
    /\ idx <= Len(files)
    /\ LET out == MobileAuditFile(files[idx])
       IN  IF out.raised
           THEN /\ pc' = "crashed"
                /\ UNCHANGED all_violations
           ELSE /\ pc' = pc
                /\ all_violations' = all_violations \o out.violations
    /\ idx' = idx + 1
    /\ UNCHANGED <<files, by_component, results, report>>

\* main after the loop: the results and the report
MobileReport ==
    /\ pc = "audit"
    /\ idx > Len(files)
    /\ LET res == [total_components |-> TotalComponents(files),
                   violations |-> BySeverity(all_violations, "error"),
                   warnings |-> BySeverity(all_violations, "warning")]
           gen == GenerateReport(res)
       IN  /\ results' = res
           /\ IF gen.raised
              THEN pc' = "crashed" /\ UNCHANGED report
              ELSE pc' = "done" /\ report' = gen.report
    /\ UNCHANGED <<files, idx, all_violations, by_component>>

NextMobile == MobileAudit \/ MobileReport

(***************************************************************************)
(* Mobile runs over several files (the aggregation).                       *)
(***************************************************************************)
AggElems == { Elem("<Image", <<>>), Elem("<Pressable", <<>>), Elem("<Text", <<>>) }

InitAgg == InitWith(ReadableBodies(AggElems) \cup {UnreadableBody}, 0..MaxFiles)

SpecAgg == InitAgg /\ [][NextMobile]_vars

(***************************************************************************)
(* What the claims speak of, read off the state.                           *)
(***************************************************************************)
\* the files audited so far
Audited == 1..(idx - 1)

\* the recorded violations of the k-th file, in recorded order
ViolationsOfFile(k) == SelectSeq(all_violations, LAMBDA v : v.file = files[k].path)

\* the recorded violations of the k-th file that name line n
ViolationsAt(k, n) == SelectSeq(ViolationsOfFile(k), LAMBDA v : v.line = n)

\* where in the enumeration the file of a violation is
FileIndex(v) == CHOOSE k \in 1..Len(files) : files[k].path = v.file

\* tag openers that no mobile pattern matches
MobileUnaudited == { "<Text" }

\* the number of error-severity violations recorded
ErrorCount == Cardinality({ a \in 1..Len(all_violations) : all_violations[a].severity = "error" })

\* the files without an error-severity violation
CleanFiles ==
    { k \in 1..Len(files) :
        \A a \in 1..Len(all_violations) :
            all_violations[a].file = files[k].path => all_violations[a].severity # "error" }

(***************************************************************************)
(* C2.  A file that cannot be read, or that holds no tag a pattern         *)
(* matches, contributes no violation and is still counted in               *)
(* total_components, and the run goes on: it never ends in an exception,   *)
(* and every audited file's unlabelled Image and Pressable elements are    *)
(* recorded, whatever files came before.                                   *)
(***************************************************************************)
C2_BadFileIsCountedAndSkipped ==
    /\ pc # "crashed"
    /\ \A k \in Audited :
          (\/ ~files[k].readable
           \/ \A j \in 1..Len(files[k].elems) : files[k].elems[j].open \in MobileUnaudited)
          => ViolationsOfFile(k) = <<>>
    /\ \A k \in Audited :
          \A j \in 1..Len(files[k].elems) :
             (files[k].readable /\ files[k].elems[j] \in {Elem("<Image", <<>>), Elem("<Pressable", <<>>)})
             => Len(ViolationsAt(k, LineOfElem(files[k].elems, j))) = 1
    /\ pc = "done" =>
          /\ idx = Len(files) + 1
          /\ results.total_components = Len(files)
          /\ report.total_components = Len(files)

\* an unreadable file first, then a file whose violation is recorded
C2_Witness ==
    /\ pc = "done"
    /\ Len(files) = 2
    /\ ~files[1].readable
    /\ ViolationsOfFile(1) = <<>>
    /\ Len(ViolationsOfFile(2)) > 0
    /\ results.total_components = 2

(***************************************************************************)
(* C3.  The compliance rate (in percent) is                                *)
(* (total - errorCount) / total * 100 when total > 0, with total the       *)
(* number of enumerated files and errorCount the number of error-severity  *)
(* violations, and it is 0 when total = 0; the report is always written,   *)
(* never a division by zero.                                               *)
(***************************************************************************)
C3_ComplianceRateFormula ==
    /\ pc # "crashed"
    /\ pc = "done" =>
          LET rate == report.compliance_rate
              total == Len(files)
          IN  /\ report.written
              /\ rate.den # 0
              /\ total > 0 => rate.num * total = 100 * (total - ErrorCount) * rate.den
              /\ total = 0 => rate.num = 0

\* a finished run over some files with an error among them
C3_Witness ==
    /\ pc = "done"
    /\ Len(files) > 0
    /\ ErrorCount > 0
    /\ report.written

\* a finished run over no file at all
C3_WitnessNoFiles ==
    /\ pc = "done"
    /\ Len(files) = 0
    /\ report.written

(***************************************************************************)
(* C4.  The compliance rate is the fraction of the scanned files that have *)
(* no error-severity violation, so it lies between 0 and 100 percent.      *)
(***************************************************************************)
C4_RateIsCleanFileFraction ==
    pc = "done" =>
       LET rate == report.compliance_rate
           total == Len(files)
       IN  /\ 0 <= rate.num * rate.den
           /\ rate.num <= 100 * rate.den
           /\ total > 0 => rate.num * total = 100 * Cardinality(CleanFiles) * rate.den

(***************************************************************************)
(* C5.  The recorded violations are in discovery order.                    *)
(***************************************************************************)
\* the pass of audit_file that creates a violation
RuleRank(v) ==
    CASE v.element \in {"TouchableOpacity", "Pressable", "pressable"} -> 1
      [] v.element = "Image"     -> 2
      [] v.element = "TextInput" -> 3
      [] v.element = "Button"    -> 4
      [] v.element = "View"      -> 5

\* as stated: files in enumeration order and, within a file, lines never
\* decreasing whichever rule made the violation
InSourceOrder(vs) ==
    \A a, b \in 1..Len(vs) :
        a < b => /\ FileIndex(vs[a]) <= FileIndex(vs[b])
                 /\ FileIndex(vs[a]) = FileIndex(vs[b]) => vs[a].line <= vs[b].line

\* as the code does it: files in enumeration order, within a file the rules
\* in the order of their passes, within a rule lines never decreasing
InPassOrder(vs) ==
    \A a, b \in 1..Len(vs) :
        a < b => /\ FileIndex(vs[a]) <= FileIndex(vs[b])
                 /\ FileIndex(vs[a]) = FileIndex(vs[b]) =>
                       /\ RuleRank(vs[a]) <= RuleRank(vs[b])
                       /\ RuleRank(vs[a]) = RuleRank(vs[b]) => vs[a].line <= vs[b].line

\* C5 as stated: source order within a file, kept by the severity partitions
C5_SourceOrder ==
    /\ InSourceOrder(all_violations)
    /\ InSourceOrder(results.violations)
    /\ InSourceOrder(results.warnings)

\* C5 amended: the violations are ordered by file in enumeration order, then
\* by rule in the order of the passes, then by line; the error and warning
\* partitions keep that order and together hold every recorded violation
C5_PassOrder ==
    /\ InPassOrder(all_violations)
    /\ InPassOrder(results.violations)
    /\ InPassOrder(results.warnings)
    /\ pc = "done" => Len(results.violations) + Len(results.warnings) = Len(all_violations)

\* two files with violations, the first with an Image above a Pressable
C5_Witness ==
    /\ pc = "done"
    /\ Len(files) = 2
    /\ files[1].readable
    /\ files[1].elems = <<Elem("<Image", <<>>), Elem("<Pressable", <<>>)>>
    /\ Len(ViolationsOfFile(2)) > 0
    /\ Len(results.violations) = Len(all_violations)

(***************************************************************************)
(* Mobile runs over one file (the rules).                                  *)
(***************************************************************************)
\* a handler written as an arrow function: its text holds a ">"
ArrowPress == <<"onPress={()=", GT, "go()}">>
ArrowLoad == <<"onLoad={()=", GT, "go()}">>

\* whether the opening tag of element e carries an attribute among hits
HasAttr(e, hits) ==
    \E a \in 1..Len(e.attrs) : \E t \in 1..Len(e.attrs[a]) : e.attrs[a][t] \in hits

\* the elements of the audited files, as (file, position) pairs
AuditedElems ==
    { <<k, j>> \in Audited \X (1..MaxElems + 1) :
        files[k].readable /\ j <= Len(files[k].elems) }

ElemAt(kj) == files[kj[1]].elems[kj[2]]

\* the violations recorded for the element at kj (it is alone on its line)
ViolationsOfElem(kj) == ViolationsAt(kj[1], LineOfElem(files[kj[1]].elems, kj[2]))

\* the props an issue or a recommendation names
NamesRole(text) ==
    text \in { "Touchable component missing accessibilityRole and accessibilityLabel",
               "Add accessibilityRole and accessibilityLabel props",
               "View with onPress missing accessibilityRole",
               "Add accessibilityRole=\"button\" and accessibilityLabel" }
NamesLabel(text) ==
    text \in { "Touchable component missing accessibilityRole and accessibilityLabel",
               "Add accessibilityRole and accessibilityLabel props",
               "Touchable component missing accessibilityLabel",
               "Add accessibilityLabel prop with descriptive text",
               "Image missing accessibilityLabel",
               "View with onPress missing accessibilityLabel",
               "Add accessibilityLabel prop" }

TouchableElems ==
    { Elem(open, attrs) :
        open \in {"<TouchableOpacity", "<Pressable"},
        attrs \in SeqsNoRep({ <<"accessibilityRole='button'">>, <<"accessibilityLabel='x'">>,
                              ArrowPress }) }

InitTouchable == InitWith(ReadableBodies(TouchableElems), {1})

SpecTouchable == InitTouchable /\ [][NextMobile]_vars

(***************************************************************************)
(* C1.  A touchable element whose opening tag has neither                  *)
(* accessibilityRole nor accessibilityLabel gets exactly one violation, an *)
(* error whose issue and recommendation name both; one whose opening tag   *)
(* has accessibilityRole and no accessibilityLabel gets exactly one        *)
(* violation, an error that names only the label.                          *)
(***************************************************************************)
C1_TouchableRule ==
    \A kj \in AuditedElems :
        LET e == ElemAt(kj)
            vs == ViolationsOfElem(kj)
        IN  e.open \in {"<TouchableOpacity", "<Pressable"} =>
              /\ (~HasAttr(e, RoleAttr) /\ ~HasAttr(e, LabelAttr)) =>
                    /\ Len(vs) = 1
                    /\ vs[1].severity = "error"
                    /\ NamesRole(vs[1].issue) /\ NamesLabel(vs[1].issue)
                    /\ NamesRole(vs[1].recommendation) /\ NamesLabel(vs[1].recommendation)
              /\ (HasAttr(e, RoleAttr) /\ ~HasAttr(e, LabelAttr)) =>
                    /\ Len(vs) = 1
                    /\ vs[1].severity = "error"
                    /\ NamesLabel(vs[1].issue) /\ ~NamesRole(vs[1].issue)
                    /\ NamesLabel(vs[1].recommendation) /\ ~NamesRole(vs[1].recommendation)

(***************************************************************************)
(* C6.  An Image whose opening tag carries accessibilityRole="none" or     *)
(* accessibilityIgnoresInvertColors gets no violation, with or without     *)
(* accessibilityLabel; an Image with no such marker and no                 *)
(* accessibilityLabel gets exactly one violation, an error.                *)
(***************************************************************************)
ImageElems ==
    { Elem("<Image", attrs) :
        attrs \in SeqsNoRep({ <<"accessibilityRole='none'">>, <<"accessibilityIgnoresInvertColors">>,
                              <<"accessibilityLabel='x'">>, ArrowLoad }) }

InitImage == InitWith(ReadableBodies(ImageElems), {1})

SpecImage == InitImage /\ [][NextMobile]_vars

C6_ImageRule ==
    \A kj \in AuditedElems :
        LET e == ElemAt(kj)
            vs == ViolationsOfElem(kj)
        IN  e.open = "<Image" =>
              /\ HasAttr(e, DecorativeAttr) => vs = <<>>
              /\ (~HasAttr(e, DecorativeAttr) /\ ~HasAttr(e, LabelAttr)) =>
                    Len(vs) = 1 /\ vs[1].severity = "error"

(***************************************************************************)
(* C10.  Mobile tag recognition is exact: a tag that differs from the      *)
(* configured name in letter case (<image>, <button>, <view onPress>)      *)
(* gets no violation.                                                      *)
(***************************************************************************)
\* the tag names as the mobile patterns spell them
MobileExactOpeners ==
    { "<TouchableOpacity", "<TouchableHighlight", "<TouchableWithoutFeedback", "<Pressable",
      "<Image", "<TextInput", "<Button", "<View" }

CaseElems ==
    { Elem(open, attrs) :
        open \in {"<Image", "<image", "<Button", "<button", "<View", "<view"},
        attrs \in {<<>>, <<(<<"onPress={go}">>)>>} }

InitCase == InitWith(ReadableBodies(CaseElems), {1})

SpecCase == InitCase /\ [][NextMobile]_vars

C10_ExactTagNames ==
    \A kj \in AuditedElems :
        ElemAt(kj).open \notin MobileExactOpeners => ViolationsOfElem(kj) = <<>>

(***************************************************************************)
(* Web: audit_file.                                                        *)
(***************************************************************************)
\* the lines after the line of an icon button that are searched for aria-label
NearbyLines == 5

\* r'aria-label\s*='
AriaLabelAttr == { "aria-label='x'" }
\* r'aria-labelledby\s*='
AriaLabelledByAttr == { "aria-labelledby='t'" }
\* r'type\s*=\s*["\']hidden["\']'
HiddenTypeAttr == { "type='hidden'" }
\* r'size\s*=\s*["\']icon["\']'
IconSizeAttr == { "size='icon'" }
\* tokens that hold the text className, and tokens that hold the text icon
ClassNameText == { "className='btn'", "className='icon-btn'" }
IconText == { "size='icon'", "className='icon-btn'", "data-icon='x'" }
\* tokens where icon follows className inside the token
ClassNameThenIcon == { "className='icon-btn'" }
\* r'role\s*=\s*["\']dialog["\']' or r'role\s*=\s*["\']alertdialog["\']'
DialogRoleAttr == { "role='dialog'", "role='alertdialog'" }
\* r'aria-modal\s*=\s*["\']true["\']'
AriaModalAttr == { "aria-modal='true'" }
\* tokens that hold the text DialogPrimitive
DialogPrimitiveText == { "DialogPrimitive", "<DialogPrimitive.Content" }
\* r'<img[^>]*alt\s*=\s*["\'][^"\']+["\']': the alt attributes with a value
NonEmptyAltAttr == { "alt='pic'" }

\* r'id\s*=\s*["\']([^"\']+)["\']' on one token: group(1), "" when the token
\* has no match; the pattern is not anchored, so it also finds the id=
\* that ends data-testid=
IdMatch(t) ==
    CASE t = "id='email'"          -> "email"
      [] t = "id='field'"          -> "field"
      [] t = "data-testid='email'" -> "email"
      [] t = "data-testid='field'" -> "field"
      [] OTHER                     -> ""

\* rf'htmlFor\s*=\s*["\']{re.escape(input_id)}["\']' on one token
HtmlForMatch(t, input_id) ==
    \/ t = "htmlFor='email'" /\ input_id = "email"
    \/ t = "htmlFor='field'" /\ input_id = "field"

\* the tokens that start with "<"
LtTokens ==
    { "<a", "<Link", "</a", "</Link", "<img", "<Icon", "<span", "</span", "<input", "<Input",
      "<textarea", "<select", "<label", "</label", "<Button", "<button", "<IconButton",
      "<Dialog", "<DialogContent", "<Modal", "<dialog", "<DialogPrimitive.Content", "<div" }

\* whitespace tokens
Blank == { NL }

\* len() of a token of text, as far as len(text_content) >= 2 reads it: 1 for
\* a single character, 2 for any longer token
CharLen(t) == CASE t = "x" -> 1 [] t = GT -> 1 [] t = "/" -> 1 [] t \in Blank -> 1 [] OTHER -> 2

\* r'[A-Za-z0-9]{2,}' on one token
AlnumRun(t) == t \notin ({ "x", GT, "/", "--" } \cup Blank)

\* content.split('\n'): the tokens at the positions of content on lines
\* first..last
TokensOnLines(content, first, last) ==
    SelectSeqBy(content, { k \in 1..Len(content) :
                             /\ content[k] # NL
                             /\ LineNum(content, k) >= first
                             /\ LineNum(content, k) <= last })

\* len(lines)
LineCount(content) == Cardinality({ k \in 1..Len(content) : content[k] = NL }) + 1

Min(a, b) == IF a <= b THEN a ELSE b
Max(a, b) == IF a >= b THEN a ELSE b

\* (?:size\s*=\s*["\']icon["\']|className[^>]*icon) inside a tag
IconMarker(span) ==
    \/ Search(IconSizeAttr, span)
    \/ \E a \in 1..Len(span) :
          /\ span[a] \in ClassNameText
          /\ \/ span[a] \in ClassNameThenIcon
             \/ \E b \in (a + 1)..Len(span) : span[b] \in IconText

RECURSIVE FindIconButtons(_, _)
\* re.finditer(icon_button_pattern, content, re.IGNORECASE)
FindIconButtons(content, from) ==
    IF from > Len(content) THEN <<>>
    ELSE IF /\ Fold(content[from]) \in {"<button", "<iconbutton"}
            /\ NextGt(content, from + 1) # 0
            /\ IconMarker(SubSeq(content, from + 1, NextGt(content, from + 1) - 1))
         THEN LET q == NextGt(content, from + 1)
              IN  <<[start |-> from, gt |-> q]>> \o FindIconButtons(content, q + 1)
         ELSE FindIconButtons(content, from + 1)

\* Pattern 1, one match
IconButtonRule(path, content, m) ==
    LET line_num == LineNum(content, m.start)
        element_content == SubSeq(content, m.start, m.gt)
        start_line == Max(0, line_num - 1)
        end_line == Min(LineCount(content), line_num + NearbyLines)
        nearby_content == TokensOnLines(content, start_line + 1, end_line)
    IN  IF ~Search(AriaLabelAttr, element_content) /\ ~Search(AriaLabelAttr, nearby_content)
        THEN <<Violation(path, line_num, "IconButton/Button", "Icon button missing aria-label",
                 "error",
                 "Add aria-label prop with descriptive text (e.g., \"Close dialog\", \"Send message\")")>>
        ELSE <<>>

\* the first id= of the attributes: group(1), "" without a match
FirstId(attributes) ==
    LET hits == { k \in 1..Len(attributes) : IdMatch(attributes[k]) # "" }
    IN  IF hits = {} THEN ""
        ELSE IdMatch(attributes[CHOOSE k \in hits : \A j \in hits : k <= j])

\* Pattern 2, one match
InputRule(path, content, m) ==
    LET attributes == Span(content, m)
        line_num == LineNum(content, m.start)
        element_type == TagName(content[m.start])
        has_aria_label == Search(AriaLabelAttr, attributes)
        has_aria_labelled_by == Search(AriaLabelledByAttr, attributes)
        input_id == FirstId(attributes)
        has_label == /\ input_id # ""
                     /\ \E k \in 1..Len(content) : HtmlForMatch(content[k], input_id)
    IN  IF Search(HiddenTypeAttr, attributes) THEN <<>>
        ELSE IF ~has_aria_label /\ ~has_aria_labelled_by /\ ~has_label
        THEN <<Violation(path, line_num, element_type, "Form input missing label or aria-label",
                 "error", "Add htmlFor/id relationship, aria-label, or aria-labelledby")>>
        ELSE <<>>

\* match.group(1) of modal_pattern: the first alternative that fits, so a
\* <DialogContent is taken as Dialog followed by Content
ModalName(t) ==
    CASE t \in {"<Dialog", "<DialogContent", "<DialogPrimitive.Content"} -> "Dialog"
      [] t = "<Modal"  -> "Modal"
      [] t = "<dialog" -> "dialog"
      [] OTHER         -> TagName(t)

\* Pattern 3, one match
ModalRule(path, content, m) ==
    LET attributes == Span(content, m)
        line_num == LineNum(content, m.start)
        element_type == ModalName(content[m.start])
        primitive == Search(DialogPrimitiveText, SubSeq(content, 1, m.start - 1))
        issues ==
            (IF ~Search(DialogRoleAttr, attributes) /\ ~primitive
             THEN <<"Missing role=\"dialog\"">> ELSE <<>>)
            \o (IF ~Search(AriaModalAttr, attributes) /\ ~primitive
                THEN <<"Missing aria-modal=\"true\"">> ELSE <<>>)
            \o (IF ~Search(AriaLabelledByAttr, attributes) /\ ~primitive
                THEN <<"Missing aria-labelledby">> ELSE <<>>)
    IN  IF issues # <<>>
        THEN <<Violation(path, line_num, element_type,
                 [text |-> "Modal/dialog missing ARIA attributes: ", missing |-> issues],
                 "error",
                 "Add role=\"dialog\", aria-modal=\"true\", aria-labelledby, and optionally aria-describedby")>>
        ELSE <<>>

\* where (?:</a>|</Link>) first fits at or after from, 0 when nowhere
NextClose(content, from) ==
    LET hits == { k \in from..(Len(content) - 1) :
                    Fold(content[k]) \in {"</a", "</link"} /\ content[k + 1] = GT }
    IN  IF hits = {} THEN 0 ELSE CHOOSE k \in hits : \A j \in hits : k <= j

RECURSIVE FindLinks(_, _)
\* re.finditer(r'<(a|Link)([^>]*?)>(.*?)(?:</a>|</Link>)', content,
\*             re.IGNORECASE | re.DOTALL)
FindLinks(content, from) ==
    IF from > Len(content) THEN <<>>
    ELSE IF /\ Fold(content[from]) \in {"<a", "<link"}
            /\ NextGt(content, from + 1) # 0
            /\ NextClose(content, NextGt(content, from + 1) + 1) # 0
         THEN LET q == NextGt(content, from + 1)
                  r == NextClose(content, q + 1)
              IN  <<[start |-> from, gt |-> q, close |-> r]>> \o FindLinks(content, r + 2)
         ELSE FindLinks(content, from + 1)

RECURSIVE StripTags(_, _)
\* re.sub(r'<[^>]+>', '', children)
StripTags(children, from) ==
    IF from > Len(children) THEN <<>>
    ELSE IF children[from] \in LtTokens /\ NextGt(children, from + 1) # 0
         THEN StripTags(children, NextGt(children, from + 1) + 1)
         ELSE <<children[from]>> \o StripTags(children, from + 1)

\* str.strip()
Strip(text) ==
    LET solid == { k \in 1..Len(text) : text[k] \notin Blank }
    IN  IF solid = {} THEN <<>>
        ELSE SubSeq(text, CHOOSE k \in solid : \A j \in solid : k <= j,
                          CHOOSE k \in solid : \A j \in solid : k >= j)

\* len(text_content) >= 2: two tokens, or one token of two characters
AtLeastTwoChars(text) == Len(text) >= 2 \/ (Len(text) = 1 /\ CharLen(text[1]) >= 2)

\* re.search(r'<img[^>]*alt\s*=\s*["\'][^"\']+["\']', children, re.IGNORECASE)
ImageWithAlt(children) ==
    \E a \in 1..Len(children) :
        /\ Fold(children[a]) = "<img"
        /\ \E b \in (a + 1)..Len(children) :
              /\ children[b] \in NonEmptyAltAttr
              /\ \A c \in (a + 1)..(b - 1) : children[c] # GT

\* Pattern 4, one match
LinkRule(path, content, m) ==
    LET line_num == LineNum(content, m.start)
        attributes == Span(content, m)
        children == SubSeq(content, m.gt + 1, m.close - 1)
        text_content == Strip(StripTags(children, 1))
        has_text == /\ AtLeastTwoChars(text_content)
                    /\ \E k \in 1..Len(text_content) : AlnumRun(text_content[k])
        has_image_with_alt == ImageWithAlt(children)
    IN  IF Search(AriaLabelAttr, attributes) THEN <<>>
        ELSE IF ~has_text /\ ~has_image_with_alt
        THEN <<Violation(path, line_num, "Link", "Link missing aria-label or accessible text",
                 "warning",
                 "Add aria-label prop or ensure link has visible text or image with alt text")>>
        ELSE <<>>

\* the order of the four passes over the file
WebPasses == <<"iconbutton", "input", "modal", "link">>

WebMatches(content, pass) ==
    CASE pass = "iconbutton" -> FindIconButtons(content, 1)
      [] pass = "input"      -> FindTags(content, {"<input", "<textarea", "<select"}, 1)
      [] pass = "modal"      -> FindTags(content, {"<dialog", "<dialogcontent", "<modal",
                                                   "<dialogprimitive.content"}, 1)
      [] pass = "link"       -> FindLinks(content, 1)

WebRule(path, content, pass, m) ==
    CASE pass = "iconbutton" -> IconButtonRule(path, content, m)
      [] pass = "input"      -> InputRule(path, content, m)
      [] pass = "modal"      -> ModalRule(path, content, m)
      [] pass = "link"       -> LinkRule(path, content, m)

\* one for-loop of audit_file: the violations of one pattern, in match order
WebPass(path, content, pass) ==
    LET ms == WebMatches(content, pass)
    IN  Concat([k \in 1..Len(ms) |-> WebRule(path, content, pass, ms[k])])

\* audit_file(file_path, root_dir): [raised, violations]
WebAuditFile(file) ==
    LET read == ReadFile(file)
    IN  IF read.raised THEN [raised |-> FALSE, violations |-> <<>>]
        ELSE [raised |-> FALSE,
              violations |-> Concat([p \in 1..Len(WebPasses) |->
                                 WebPass(file.path, read.content, WebPasses[p])])]

(***************************************************************************)
(* Web: main.                                                              *)
(***************************************************************************)
\* os.path.basename(file_path).replace('.tsx', '')
ComponentName(file) == file.path.base

\* by_component[component_name] = {'violations': ..., 'warnings': ...}
PutComponent(components, name, violations) ==
    [n \in DOMAIN components \cup {name} |->
        IF n = name
        THEN [violations |-> BySeverity(violations, "error"),
              warnings |-> BySeverity(violations, "warning")]
        ELSE components[n]]

\* main, one turn of: for file_path in files
WebAudit ==
    /\ pc = "audit"
    /\ idx <= Len(files)
    /\ LET out == WebAuditFile(files[idx])
       IN  IF out.raised
           THEN /\ pc' = "crashed"
                /\ UNCHANGED <<all_violations, by_component>>
           ELSE /\ pc' = pc
                /\ IF out.violations # <<>>
                   THEN /\ by_component' = PutComponent(by_component, ComponentName(files[idx]),
                                                        out.violations)
                        /\ all_violations' = all_violations \o out.violations
                   ELSE UNCHANGED <<all_violations, by_component>>
    /\ idx' = idx + 1
    /\ UNCHANGED <<files, results, report>>

\* main after the loop: the results and the report
WebReport ==
    /\ pc = "audit"
    /\ idx > Len(files)
    /\ LET res == [total_components |-> TotalComponents(files),
                   violations |-> BySeverity(all_violations, "error"),
                   warnings |-> BySeverity(all_violations, "warning"),
                   by_component |-> by_component]
           gen == GenerateReport(res)
       IN  /\ results' = res
           /\ IF gen.raised
              THEN pc' = "crashed" /\ UNCHANGED report
              ELSE pc' = "done" /\ report' = gen.report
    /\ UNCHANGED <<files, idx, all_violations, by_component>>

NextWeb == WebAudit \/ WebReport

(***************************************************************************)
(* Web runs over one file (the rules).                                     *)
(***************************************************************************)
ArrowChange == <<"onChange={e=", GT, "set(e)}">>
ArrowClick == <<"onClick={()=", GT, "go()}">>

\* <label htmlFor='v'>Email</label>
LabelFor(attr) == ElemWithKids("<label", <<(<<attr>>)>>, <<TextChild("Email")>>, "</label")

HiddenElems ==
    { Elem("<input", attrs) :
        attrs \in SeqsNoRep({ <<"type='hidden'">>, <<"id='email'">>, ArrowChange }) }

InitHidden == InitWith(ReadableBodies(HiddenElems), {1})

SpecHidden == InitHidden /\ [][NextWeb]_vars

(***************************************************************************)
(* C7.  An input whose type attribute is "hidden" gets no violation from   *)
(* the audit of its file, labelled or not; the exemption is that           *)
(* element's alone: a bare <input> of the same file still gets its one     *)
(* violation.                                                              *)
(***************************************************************************)
C7_HiddenInputExempt ==
    \A kj \in AuditedElems :
        LET e == ElemAt(kj)
            vs == ViolationsOfElem(kj)
        IN  e.open = "<input" =>
              /\ HasAttr(e, HiddenTypeAttr) => vs = <<>>
              /\ e.attrs = <<>> => Len(vs) = 1 /\ vs[1].severity = "error"

(***************************************************************************)
(* C9.  A control that is not hidden and whose own id attribute has the    *)
(* value V gets no violation when some htmlFor of the file equals V,       *)
(* before or after it; a control that is not hidden and has no aria-label, *)
(* no aria-labelledby and no label bound to its own id gets exactly one    *)
(* violation, an error.                                                    *)
(***************************************************************************)
\* the value of the element's own id attribute, "" without one
OwnId(e) ==
    IF HasAttr(e, {"id='email'"}) THEN "email"
    ELSE IF HasAttr(e, {"id='field'"}) THEN "field"
    ELSE ""

\* the value of the element's htmlFor attribute, "" without one
OwnHtmlFor(e) ==
    IF HasAttr(e, {"htmlFor='email'"}) THEN "email"
    ELSE IF HasAttr(e, {"htmlFor='field'"}) THEN "field"
    ELSE ""

\* whether file k holds a label whose htmlFor is v
LabelBoundTo(k, v) ==
    \E j \in 1..Len(files[k].elems) :
        files[k].elems[j].open = "<label" /\ OwnHtmlFor(files[k].elems[j]) = v

LabelRefElems ==
    { Elem("<input", attrs) :
        attrs \in SeqsNoRep({ <<"id='email'">>, <<"data-testid='field'">>,
                              <<"aria-label='x'">> }) }
    \cup { LabelFor("htmlFor='email'"), LabelFor("htmlFor='field'") }

InitLabelRef == InitWith(ReadableBodies(LabelRefElems), {1})

SpecLabelRef == InitLabelRef /\ [][NextWeb]_vars

C9_LabelByReference ==
    \A kj \in AuditedElems :
        LET e == ElemAt(kj)
            vs == ViolationsOfElem(kj)
            bound == OwnId(e) # "" /\ LabelBoundTo(kj[1], OwnId(e))
        IN  (e.open \in {"<input", "<textarea", "<select"} /\ ~HasAttr(e, HiddenTypeAttr)) =>
              /\ bound => vs = <<>>
              /\ (~HasAttr(e, AriaLabelAttr) /\ ~HasAttr(e, AriaLabelledByAttr) /\ ~bound) =>
                    Len(vs) = 1 /\ vs[1].severity = "error"

(***************************************************************************)
(* C8.  An a/Link element with a closing tag and no aria-label gets no     *)
(* violation when its inner text (the child tags left out) has at least    *)
(* two characters and an alphanumeric run of two, or when a child img has  *)
(* a non-empty alt; otherwise it gets exactly one violation, a warning.  A *)
(* link with aria-label gets none.                                         *)
(***************************************************************************)
\* the words of text among the children of e
InnerText(e) ==
    Concat([c \in 1..Len(e.kids) |-> IF e.kids[c].text THEN e.kids[c].tokens ELSE <<>>])

\* whether a child of e is an img with a non-empty alt
ChildImgWithAlt(e) ==
    \E c \in 1..Len(e.kids) :
        /\ ~e.kids[c].text
        /\ e.kids[c].tokens[1] = "<img"
        /\ \E t \in 1..Len(e.kids[c].tokens) : e.kids[c].tokens[t] \in NonEmptyAltAttr

LinkKids ==
    { <<>>, <<TextChild("ok")>>, <<TextChild("x")>>, <<TextChild("--")>>,
      <<TagChild(<<"<img", "alt='pic'", "/", GT>>)>>,
      <<TagChild(<<"<img", "alt=''", "/", GT>>)>>,
      <<TagChild(<<"<Icon", "/", GT>>)>> }

LinkElems ==
    { ElemWithKids(oc[1], attrs, kids, oc[2]) :
        oc \in { <<"<a", "</a">>, <<"<Link", "</Link">> },
        attrs \in SeqsNoRep({ <<"aria-label='x'">>, ArrowClick }),
        kids \in LinkKids }

InitLink == InitWith(ReadableBodies(LinkElems), {1})

SpecLink == InitLink /\ [][NextWeb]_vars

C8_LinkAccessibleText ==
    \A kj \in AuditedElems :
        LET e == ElemAt(kj)
            vs == ViolationsOfElem(kj)
            text == InnerText(e)
            meaningful == /\ AtLeastTwoChars(text)
                          /\ \E t \in 1..Len(text) : AlnumRun(text[t])
        IN  (e.open \in {"<a", "<Link"} /\ e.close # "") =>
              IF HasAttr(e, AriaLabelAttr) THEN vs = <<>>
              ELSE IF meaningful \/ ChildImgWithAlt(e) THEN vs = <<>>
              ELSE Len(vs) = 1 /\ vs[1].severity = "warning"

(***************************************************************************)
(* C11.  The attribute span handed to a rule is all the text between the   *)
(* tag name and the ">" that closes that same opening tag, whatever the    *)
(* attribute values hold, a ">" included; so an attribute written anywhere *)
(* in the opening tag (accessibilityLabel after an onPress handler) is     *)
(* read as present and the element is not reported as missing it.          *)
(***************************************************************************)
\* the text of the audited file k, as audit_file reads it
ContentOf(k) == ReadFile(files[k]).content

\* the matches of touchable_pattern in file k that start on line n
TouchableMatchesOn(k, n) ==
    LET content == ContentOf(k)
        ms == FindTags(content, TouchableOpeners, 1)
    IN  SelectSeq(ms, LAMBDA m : LineNum(content, m.start) = n)

\* whether an issue reports accessibilityLabel as missing
ReportsLabelMissing(vs) == \E i \in 1..Len(vs) : NamesLabel(vs[i].issue)

C11_SpanIsWholeOpeningTag ==
    \A kj \in AuditedElems :
        LET e == ElemAt(kj)
            ms == TouchableMatchesOn(kj[1], LineOfElem(files[kj[1]].elems, kj[2]))
        IN  Fold(e.open) \in TouchableOpeners =>
              /\ Len(ms) = 1
              /\ Span(ContentOf(kj[1]), ms[1]) = Concat(e.attrs)
              /\ HasAttr(e, LabelAttr) => ~ReportsLabelMissing(ViolationsOfElem(kj))

(***************************************************************************)
(* Web runs over one file of dialogs.                                      *)
(***************************************************************************)
ArrowOpenChange == <<"onOpenChange={()=", GT, "close()}">>

\* the three markers of Pattern 3, in the order the code tests them
ModalMarkers == <<"role='dialog'", "aria-modal='true'", "aria-labelledby='t'">>

\* the markers an opening tag can carry: any of the three, in that order
MarkerLists ==
    { SelectSeqBy([i \in 1..3 |-> <<ModalMarkers[i]>>], keep) : keep \in SUBSET (1..3) }

ModalOpeners == { "<Dialog", "<DialogContent", "<Modal", "<dialog" }

\* an element of the accessible primitive, whose text holds DialogPrimitive
PrimitiveElem == Elem("<DialogPrimitive.Content", <<>>)

ModalElems ==
    { Elem(open, attrs) :
        open \in ModalOpeners,
        attrs \in MarkerLists \cup { <<ArrowOpenChange>> \o ms : ms \in MarkerLists }
                              \cup { <<(<<"role='alertdialog'">>)>> } }
    \cup { PrimitiveElem }

InitModal == InitWith(ReadableBodies(ModalElems), {1})

SpecModal == InitModal /\ [][NextWeb]_vars

(***************************************************************************)
(* C12.  A Dialog/DialogContent/Modal/dialog element gets no violation     *)
(* when the text DialogPrimitive appears earlier in its file, whatever its *)
(* attributes; otherwise it gets exactly one violation, an error, if and   *)
(* only if one of role="dialog"/"alertdialog", aria-modal="true",          *)
(* aria-labelledby is missing from its opening tag, and the issue of that  *)
(* one violation lists exactly the missing markers.                        *)
(***************************************************************************)
\* whether the text DialogPrimitive is written in file k above element j
PrimitiveAbove(k, j) ==
    \E i \in 1..(j - 1) : files[k].elems[i].open \in DialogPrimitiveText

\* what the issue says of each marker that element e lacks
MissingMarkers(e) ==
    (IF HasAttr(e, DialogRoleAttr) THEN {} ELSE {"Missing role=\"dialog\""})
    \cup (IF HasAttr(e, AriaModalAttr) THEN {} ELSE {"Missing aria-modal=\"true\""})
    \cup (IF HasAttr(e, AriaLabelledByAttr) THEN {} ELSE {"Missing aria-labelledby"})

C12_ModalRule ==
    \A kj \in AuditedElems :
        LET e == ElemAt(kj)
            vs == ViolationsOfElem(kj)
        IN  e.open \in ModalOpeners =>
              IF PrimitiveAbove(kj[1], kj[2]) \/ MissingMarkers(e) = {}
              THEN vs = <<>>
              ELSE /\ Len(vs) = 1
                   /\ vs[1].severity = "error"
                   /\ Len(vs[1].issue.missing) = Cardinality(MissingMarkers(e))
                   /\ { vs[1].issue.missing[i] : i \in 1..Len(vs[1].issue.missing) }
                         = MissingMarkers(e)

(***************************************************************************)
(* Web runs over files whose base names may coincide.                      *)
(***************************************************************************)
\* the file names os.walk can meet; the directories differ from file to file
BaseNames == { "Card", "Panel" }

\* os.path.join(root, filename) of the k-th enumerated file, named base
PathNamed(k, base) == [dir |-> k, base |-> base]

\* an input without a label (an error), a link without text (a warning)
BreakdownElems == { Elem("<input", <<>>), ElemWithKids("<a", <<>>, <<>>, "</a") }

\* main before the loop: find_component_files has found at most MaxFiles files
InitBreakdown ==
    /\ \E n \in 0..MaxFiles :
         \E b \in [1..n -> ReadableBodies(BreakdownElems) \cup {UnreadableBody}] :
           \E names \in [1..n -> BaseNames] :
             files = [k \in 1..n |-> [path |-> PathNamed(k, names[k]),
                                      readable |-> b[k].readable,
                                      elems |-> b[k].elems]]
    /\ idx = 1
    /\ all_violations = <<>>
    /\ by_component = <<>>
    /\ pc = "audit"
    /\ results = NoResults
    /\ report = NoReport

SpecBreakdown == InitBreakdown /\ [][NextWeb]_vars

(***************************************************************************)
(* C13.  After a web run the breakdown by component accounts for every     *)
(* recorded violation: the errors of all its entries add up to the length  *)
(* of the overall error list, the warnings to the length of the overall    *)
(* warning list, and every file that produced a violation has its own      *)
(* violations in the breakdown, files of different directories with one    *)
(* base name included.                                                     *)
(***************************************************************************)
RECURSIVE SumOver(_, _, _)
\* the sum of Len(components[n][field]) over the names n in S
SumOver(components, field, S) ==
    IF S = {} THEN 0
    ELSE LET n == CHOOSE x \in S : TRUE
         IN  Len(components[n][field]) + SumOver(components, field, S \ {n})

C13_BreakdownAccountsForAll ==
    pc = "done" =>
      /\ SumOver(results.by_component, "violations", DOMAIN results.by_component)
             = Len(results.violations)
      /\ SumOver(results.by_component, "warnings", DOMAIN results.by_component)
             = Len(results.warnings)
      /\ \A k \in 1..Len(files) :
            ViolationsOfFile(k) # <<>> =>
              /\ ComponentName(files[k]) \in DOMAIN results.by_component
              /\ results.by_component[ComponentName(files[k])].violations
                     = BySeverity(ViolationsOfFile(k), "error")
              /\ results.by_component[ComponentName(files[k])].warnings
                     = BySeverity(ViolationsOfFile(k), "warning")

====
